---- MODULE Spec2Model ----
(***************************************************************************)
(* A model of the hand engine of pkg/hand: canonical arrangement           *)
(* (formCards), the two ranking tables, handForFiveCards, cardCombos, New,  *)
(* CompareTo and Sort.  Go panics (index out of range, "unreachable") are   *)
(* modelled as explicit outcomes.                                           *)
(***************************************************************************)
EXTENDS Integers, Sequences, FiniteSets, TLC

VARIABLES
    cards,    \* the card slice the caller passes to New
    pc,       \* the caller's position: "idle", "start", "built", "decoded", "compared", "sorted", "encoded", "reread"
    config,   \* the Config c of the last call to New
    hand,     \* the *Hand New returned (NoHand when New panicked or before the call)
    panic,    \* "" or the message of the Go panic the last call ended in
    steps,    \* the functions of hand.go the last call to New entered
    cmp,      \* the last CompareTo: <<>> or <<[o, value, panic]>>
    hands,    \* the caller's slice of hands handed to Sort
    sorted,   \* the last Sort: <<>> or <<[s, o, out, panic]>>
    json,     \* the record MarshalJSON made of hand: <<>> or <<record>>
    decoded   \* the outcome of UnmarshalJSON on that record: <<>> or <<[hand, panic]>>

vars == <<cards, pc, config, hand, panic, steps, cmp, hands, sorted, json, decoded>>

\* F applied to the value of x, computed once (a local variable of the code)
Bind(x, F(_)) == CHOOSE v \in {F(y) : y \in {x}} : TRUE

-----------------------------------------------------------------------------
(* Ranks, suits, cards.  The Rank enumeration is consecutive integers with   *)
(* Ace on top: hasStraight relies on lastIndex == index+1 from Ace to Two.   *)

Two == 0
Three == 1
Four == 2
Five == 3
Six == 4
Seven == 5
Eight == 6
Nine == 7
Ten == 8
Jack == 9
Queen == 10
King == 11
Ace == 12

allRanks == <<Two, Three, Four, Five, Six, Seven, Eight, Nine, Ten, Jack, Queen, King, Ace>>

Suits == {"s", "h", "d", "c"}

Card(r, s) == [rank |-> r, suit |-> s]

\* position of a rank in the ace-high ordering (Ace greatest)
aceHighIndex(r) == r

\* position of a rank in the ace-low ordering (Ace least)
aceLowIndex(r) == IF r = Ace THEN 0 ELSE r + 1

singularName(r) ==
    CASE r = Two -> "two" [] r = Three -> "three" [] r = Four -> "four"
      [] r = Five -> "five" [] r = Six -> "six" [] r = Seven -> "seven"
      [] r = Eight -> "eight" [] r = Nine -> "nine" [] r = Ten -> "ten"
      [] r = Jack -> "jack" [] r = Queen -> "queen" [] r = King -> "king"
      [] r = Ace -> "ace"

pluralName(r) == IF r = Six THEN "sixes" ELSE singularName(r) \o "s"

-----------------------------------------------------------------------------
(* Config and the option functions.                                          *)

SortingUnset == 0
SortingHigh == 1
SortingLow == 2

ASC == 1
DESC == 2

GameTypeUnset == "unset"
GameTypeStandard == "standard"
GameTypeShortDeck == "shortdeck"

\* c := &Config{}
ZeroConfig ==
    [sorting |-> SortingUnset, ignoreStraights |-> FALSE, ignoreFlushes |-> FALSE,
     aceIsLow |-> FALSE, gameType |-> GameTypeUnset]

Low(c) == [c EXCEPT !.sorting = SortingLow]

AceToFiveLow(c) ==
    [c EXCEPT !.sorting = SortingLow, !.aceIsLow = TRUE,
              !.ignoreStraights = TRUE, !.ignoreFlushes = TRUE]

ShortDeck(c) == [c EXCEPT !.gameType = GameTypeShortDeck]

Options == {"Low", "AceToFiveLow", "ShortDeck"}

applyOption(c, option) ==
    CASE option = "Low" -> Low(c)
      [] option = "AceToFiveLow" -> AceToFiveLow(c)
      [] option = "ShortDeck" -> ShortDeck(c)

\* for _, option := range options { option(c) }
applyOptions(c, options) ==
    LET RECURSIVE go(_, _)
        go(cc, i) ==
            IF i > Len(options) THEN cc
            ELSE Bind(applyOption(cc, options[i]), LAMBDA c2 : go(c2, i + 1))
    IN go(c, 1)

-----------------------------------------------------------------------------
(* sort.Sort on a short slice: the library's insertion sort.  Less and       *)
(* Panics take elements; a comparison that panics ends the sort.             *)

\* where x lands in the sorted prefix t: x moves left while Less(x, t[j]), so it
\* stops at the last j whose comparison panics or is not Less (0: at the front)
insertStop(t, x, Less(_, _), Panics(_, _)) ==
    LET stop(j) == Panics(x, t[j]) \/ ~Less(x, t[j])
    IN IF \A j \in 1..Len(t) : ~stop(j) THEN 0
       ELSE CHOOSE j \in 1..Len(t) : stop(j) /\ \A k \in (j + 1)..Len(t) : ~stop(k)

\* one pass of the outer loop: [panic, out] after inserting x into t
insertOne(t, x, Less(_, _), Panics(_, _)) ==
    Bind(insertStop(t, x, Less, Panics), LAMBDA p :
        IF p > 0 /\ Panics(x, t[p])
        THEN [panic |-> TRUE, out |-> t]
        ELSE [panic |-> FALSE,
              out |-> SubSeq(t, 1, p) \o <<x>> \o SubSeq(t, p + 1, Len(t))])

insertionSort(s, Less(_, _), Panics(_, _)) ==
    LET RECURSIVE go(_, _)
        go(t, i) ==
            IF i > Len(s) THEN [panic |-> FALSE, out |-> t]
            ELSE Bind(insertOne(t, s[i], Less, Panics), LAMBDA r :
                    IF r.panic THEN r ELSE go(r.out, i + 1))
    IN go(<<>>, 1)

NeverPanics(a, b) == FALSE

-----------------------------------------------------------------------------
(* Canonical arrangement.                                                    *)

byAceHighLess(a, b) == aceHighIndex(a.rank) < aceHighIndex(b.rank)
byAceLowLess(a, b) == aceLowIndex(a.rank) < aceLowIndex(b.rank)
byAceHighRankLess(a, b) == aceHighIndex(a) < aceHighIndex(b)
byAceLowRankLess(a, b) == aceLowIndex(a) < aceLowIndex(b)

\* sort.Sort(sort.Reverse(x)): Less(i, j) of the reverse is Less(j, i)
sortCardsDesc(cs, aceIsLow) ==
    LET rev(a, b) == IF aceIsLow THEN byAceLowLess(b, a) ELSE byAceHighLess(b, a)
    IN insertionSort(cs, rev, NeverPanics).out

\* ranks = allRanks(); sort.Sort(sort.Reverse(byAceHighRank(ranks))): king..two, ace last
\* under aceIsLow, ace first otherwise
ranksAceLowDesc ==
    LET rev(a, b) == byAceLowRankLess(b, a)
    IN insertionSort(allRanks, rev, NeverPanics).out

ranksAceHighDesc ==
    LET rev(a, b) == byAceHighRankLess(b, a)
    IN insertionSort(allRanks, rev, NeverPanics).out

sortRanksDesc(aceIsLow) == IF aceIsLow THEN ranksAceLowDesc ELSE ranksAceHighDesc

cardsForRank(cs, r) == SelectSeq(cs, LAMBDA c : c.rank = r)

ranksOf(cs) == [i \in 1..Len(cs) |-> cs[i].rank]

\* a formLowStraight that leaves the wheel with its ace in front
formLowStraightNoRotation(cs) == cs

formLowStraight(cs) ==
    IF Len(cs) < 5 THEN cs
    ELSE IF ranksOf(SubSeq(cs, 1, 5)) = <<Ace, Five, Four, Three, Two>>
         THEN <<cs[2], cs[3], cs[4], cs[5], cs[1]>>
         ELSE cs

formLowSDStraight(cs) ==
    IF Len(cs) < 5 THEN cs
    ELSE IF ranksOf(SubSeq(cs, 1, 5)) = <<Ace, Nine, Eight, Seven, Six>>
         THEN <<cs[2], cs[3], cs[4], cs[5], cs[1]>>
         ELSE cs

\* for _, r := range ranks: the cards of every rank that holds exactly i cards,
\* in table order
formGroup(cs, ranks, i) ==
    LET RECURSIVE go(_)
        go(k) ==
            IF k > Len(ranks) THEN <<>>
            ELSE Bind(cardsForRank(cs, ranks[k]), LAMBDA rCards :
                    IF Len(rCards) = i THEN rCards ELSE <<>>) \o go(k + 1)
    IN go(1)

\* the loop for i := 4; i > 0; i-- (ranks is cut down to the ranks the cards
\* hold: no other rank has i > 0 cards)
formGroups(srt, allDesc) ==
    Bind(SelectSeq(allDesc, LAMBDA r : \E j \in 1..Len(srt) : srt[j].rank = r),
         LAMBDA ranks : formGroup(srt, ranks, 4) \o formGroup(srt, ranks, 3)
                        \o formGroup(srt, ranks, 2) \o formGroup(srt, ranks, 1))

formCards(cs, c) ==
    Bind(Bind(sortCardsDesc(cs, c.aceIsLow),
              LAMBDA srt : formGroups(srt, sortRanksDesc(c.aceIsLow))),
         LAMBDA formed : IF c.gameType = GameTypeShortDeck
                         THEN formLowSDStraight(formed)
                         ELSE formLowStraight(formed))

-----------------------------------------------------------------------------
(* Shape primitives.  Go slices are 0-based, sequences here 1-based.         *)

hasFlush(cs) ==
    IF Len(cs) # 5 THEN FALSE
    ELSE \A i \in 1..5 : cs[i].suit = cs[1].suit

hasLowStraight(cs) == ranksOf(SubSeq(cs, 1, 5)) = <<Five, Four, Three, Two, Ace>>

hasStraight(cs) ==
    IF Len(cs) # 5 THEN FALSE
    ELSE (\A i \in 2..5 : cs[i - 1].rank = cs[i].rank + 1) \/ hasLowStraight(cs)

\* cards[0].Rank() == Ace && cards[1].Rank() == Nine && ... with no length
\* check: the conjunction stops at the first mismatch, and indexes past the
\* end of a shorter slice when every card before matched.
lowSDPrefix(cs) ==
    LET want == <<Ace, Nine, Eight, Seven, Six>>
        n == IF Len(cs) < 5 THEN Len(cs) ELSE 5
    IN \A i \in 1..n : cs[i].rank = want[i]

hasLowSDStraightPanics(cs) == Len(cs) < 5 /\ lowSDPrefix(cs)

hasLowSDStraight(cs) == Len(cs) >= 5 /\ lowSDPrefix(cs)

hasStraightInShortDeckPanics(cs) == ~hasStraight(cs) /\ hasLowSDStraightPanics(cs)

hasStraightInShortDeck(cs) == hasStraight(cs) \/ hasLowSDStraight(cs)

\* for i := 0; i < 5; i++: past the end of cards the answer is pairNums[i] == 1
hasPairs(cs, pairNums) ==
    LET n == IF Len(cs) < 5 THEN Len(cs) ELSE 5
    IN /\ \A i \in 1..n : pairNums[i] = Len(cardsForRank(cs, cs[i].rank))
       /\ (n < 5 => pairNums[n + 1] = 1)

-----------------------------------------------------------------------------
(* The ranking ordinals of the two tables.                                   *)

StdHighCard == 1
StdPair == 2
StdTwoPair == 3
StdThreeOfAKind == 4
StdStraight == 5
StdFlush == 6
StdFullHouse == 7
StdFourOfAKind == 8
StdStraightFlush == 9
StdRoyalFlush == 10

SDHighCard == 1
SDPair == 2
SDTwoPair == 3
SDThreeOfAKind == 4
SDStraight == 5
\* a short-deck table whose full house kept the ordinal of the standard table
SDFullHouseAsStandard == StdFullHouse

SDFullHouse == 6
\* a short-deck table whose flush kept the ordinal of the standard table
SDFlushAsStandard == StdFlush

SDFlush == 7
SDFourOfAKind == 8
SDStraightFlush == 9
SDRoyalFlush == 10

\* NewRanking(r, vFunc, dFunc): the closures are dispatched on the entry's name
NewRanking(r, name) == [r |-> r, name |-> name]

stdHighCard == NewRanking(StdHighCard, "stdHighCard")
stdPair == NewRanking(StdPair, "stdPair")
stdTwoPair == NewRanking(StdTwoPair, "stdTwoPair")
stdThreeOfAKind == NewRanking(StdThreeOfAKind, "stdThreeOfAKind")
stdStraight == NewRanking(StdStraight, "stdStraight")
stdFlush == NewRanking(StdFlush, "stdFlush")
stdFullHouse == NewRanking(StdFullHouse, "stdFullHouse")
stdFourOfAKind == NewRanking(StdFourOfAKind, "stdFourOfAKind")
stdStraightFlush == NewRanking(StdStraightFlush, "stdStraightFlush")
stdRoyalFlush == NewRanking(StdRoyalFlush, "stdRoyalFlush")

sdHighCard == NewRanking(SDHighCard, "sdHighCard")
sdPair == NewRanking(SDPair, "sdPair")
sdTwoPair == NewRanking(SDTwoPair, "sdTwoPair")
sdThreeOfAKind == NewRanking(SDThreeOfAKind, "sdThreeOfAKind")
sdStraight == NewRanking(SDStraight, "sdStraight")
sdFlush == NewRanking(SDFlush, "sdFlush")
sdFullHouse == NewRanking(SDFullHouse, "sdFullHouse")
sdFourOfAKind == NewRanking(SDFourOfAKind, "sdFourOfAKind")
sdStraightFlush == NewRanking(SDStraightFlush, "sdStraightFlush")
sdRoyalFlush == NewRanking(SDRoyalFlush, "sdRoyalFlush")

getRankingsByType(gameType) ==
    IF gameType = GameTypeShortDeck
    THEN <<sdHighCard, sdPair, sdTwoPair, sdThreeOfAKind, sdStraight,
           sdFlush, sdFullHouse, sdFourOfAKind, sdStraightFlush, sdRoyalFlush>>
    ELSE <<stdHighCard, stdPair, stdTwoPair, stdThreeOfAKind, stdStraight,
           stdFlush, stdFullHouse, stdFourOfAKind, stdStraightFlush, stdRoyalFlush>>

-----------------------------------------------------------------------------
(* The predicates (vFunc) of the standard table.                             *)

stdHighCardValid(cs, c) ==
    /\ hasPairs(cs, <<1, 1, 1, 1, 1>>)
    /\ (~c.ignoreStraights => ~hasStraight(cs))
    /\ (~c.ignoreFlushes => ~hasFlush(cs))

stdStraightValid(cs, c) ==
    IF c.ignoreStraights THEN FALSE ELSE ~hasFlush(cs) /\ hasStraight(cs)

stdFlushValid(cs, c) ==
    IF c.ignoreFlushes THEN FALSE ELSE hasFlush(cs) /\ ~hasStraight(cs)

stdStraightFlushValid(cs, c) ==
    IF c.ignoreStraights \/ c.ignoreFlushes THEN FALSE
    ELSE cs[1].rank # Ace /\ hasFlush(cs) /\ hasStraight(cs)

stdRoyalFlushValid(cs, c) ==
    IF c.ignoreStraights \/ c.ignoreFlushes THEN FALSE
    ELSE cs[1].rank = Ace /\ hasFlush(cs) /\ hasStraight(cs)

(* The predicates (vFunc) of the short-deck table.                           *)

sdHighCardValid(cs, c) ==
    /\ hasPairs(cs, <<1, 1, 1, 1, 1>>)
    /\ (~c.ignoreStraights => ~hasStraightInShortDeck(cs))
    /\ (~c.ignoreFlushes => ~hasFlush(cs))

sdStraightValid(cs, c) ==
    IF c.ignoreStraights THEN FALSE ELSE ~hasFlush(cs) /\ hasStraightInShortDeck(cs)

sdFlushValid(cs, c) ==
    IF c.ignoreFlushes THEN FALSE ELSE hasFlush(cs) /\ ~hasStraightInShortDeck(cs)

sdStraightFlushValid(cs, c) ==
    IF c.ignoreStraights \/ c.ignoreFlushes THEN FALSE
    ELSE cs[1].rank # Ace /\ hasFlush(cs) /\ hasStraightInShortDeck(cs)

sdRoyalFlushValid(cs, c) ==
    IF c.ignoreStraights \/ c.ignoreFlushes THEN FALSE
    ELSE cs[1].rank = Ace /\ hasFlush(cs) /\ hasStraightInShortDeck(cs)

(* The pair-pattern predicates, the same in both tables.                     *)

pairValid(cs, c) == hasPairs(cs, <<2, 2, 1, 1, 1>>)
twoPairValid(cs, c) == hasPairs(cs, <<2, 2, 2, 2, 1>>)
threeOfAKindValid(cs, c) == hasPairs(cs, <<3, 3, 3, 1, 1>>)
fullHouseValid(cs, c) == hasPairs(cs, <<3, 3, 3, 2, 2>>)
fourOfAKindValid(cs, c) == hasPairs(cs, <<4, 4, 4, 4, 1>>)

\* whether r.vFunc(cards, c) ends in an index-out-of-range panic
vPanics(rk, cs, c) ==
    CASE rk.name = "sdHighCard" -> hasStraightInShortDeckPanics(cs)
      [] rk.name = "sdStraight" -> ~c.ignoreStraights /\ hasStraightInShortDeckPanics(cs)
      [] rk.name = "sdFlush" -> ~c.ignoreFlushes /\ hasStraightInShortDeckPanics(cs)
      [] rk.name \in {"sdStraightFlush", "sdRoyalFlush"} ->
            /\ ~(c.ignoreStraights \/ c.ignoreFlushes)
            /\ (hasStraightInShortDeckPanics(cs) \/ Len(cs) = 0)
      [] rk.name \in {"stdStraightFlush", "stdRoyalFlush"} ->
            ~(c.ignoreStraights \/ c.ignoreFlushes) /\ Len(cs) = 0
      [] OTHER -> FALSE

\* r.vFunc(cards, c), when it does not panic
vFunc(rk, cs, c) ==
    CASE rk.name = "stdHighCard" -> stdHighCardValid(cs, c)
      [] rk.name = "stdStraight" -> stdStraightValid(cs, c)
      [] rk.name = "stdFlush" -> stdFlushValid(cs, c)
      [] rk.name = "stdStraightFlush" -> stdStraightFlushValid(cs, c)
      [] rk.name = "stdRoyalFlush" -> stdRoyalFlushValid(cs, c)
      [] rk.name = "sdHighCard" -> sdHighCardValid(cs, c)
      [] rk.name = "sdStraight" -> sdStraightValid(cs, c)
      [] rk.name = "sdFlush" -> sdFlushValid(cs, c)
      [] rk.name = "sdStraightFlush" -> sdStraightFlushValid(cs, c)
      [] rk.name = "sdRoyalFlush" -> sdRoyalFlushValid(cs, c)
      [] rk.name \in {"stdPair", "sdPair"} -> pairValid(cs, c)
      [] rk.name \in {"stdTwoPair", "sdTwoPair"} -> twoPairValid(cs, c)
      [] rk.name \in {"stdThreeOfAKind", "sdThreeOfAKind"} -> threeOfAKindValid(cs, c)
      [] rk.name \in {"stdFullHouse", "sdFullHouse"} -> fullHouseValid(cs, c)
      [] rk.name \in {"stdFourOfAKind", "sdFourOfAKind"} -> fourOfAKindValid(cs, c)

\* the 0-based index of the last card r.dFunc reads (-1: none)
dLastIndex(rk) ==
    CASE rk.name \in {"stdRoyalFlush", "sdRoyalFlush"} -> -1
      [] rk.name \in {"stdTwoPair", "sdTwoPair"} -> 2
      [] rk.name \in {"stdFullHouse", "sdFullHouse"} -> 3
      [] OTHER -> 0

dPanics(rk, cs) == dLastIndex(rk) >= Len(cs)

\* r.dFunc(cards): the fmt.Sprintf of each description generator
dFunc(rk, cs) ==
    CASE rk.name \in {"stdHighCard", "sdHighCard"} ->
            "high card " \o singularName(cs[1].rank) \o " high"
      [] rk.name \in {"stdPair", "sdPair"} -> "pair of " \o pluralName(cs[1].rank)
      [] rk.name \in {"stdTwoPair", "sdTwoPair"} ->
            "two pair " \o pluralName(cs[1].rank) \o " and " \o pluralName(cs[3].rank)
      [] rk.name \in {"stdThreeOfAKind", "sdThreeOfAKind"} ->
            "three of a kind " \o pluralName(cs[1].rank)
      [] rk.name \in {"stdStraight", "sdStraight"} ->
            "straight " \o singularName(cs[1].rank) \o " high"
      [] rk.name \in {"stdFlush", "sdFlush"} ->
            "flush " \o singularName(cs[1].rank) \o " high"
      [] rk.name \in {"stdFullHouse", "sdFullHouse"} ->
            "full house " \o pluralName(cs[1].rank) \o " full of " \o pluralName(cs[4].rank)
      [] rk.name \in {"stdFourOfAKind", "sdFourOfAKind"} ->
            "four of a kind " \o pluralName(cs[1].rank)
      [] rk.name \in {"stdStraightFlush", "sdStraightFlush"} ->
            "straight flush " \o singularName(cs[1].rank) \o " high"
      [] rk.name \in {"stdRoyalFlush", "sdRoyalFlush"} -> "royal flush"

-----------------------------------------------------------------------------
(* Hands.  A call's outcome is [panic, hand]: panic is "" or the message.    *)

\* the nil *Config of a Hand that handForFiveCards built is <<>>, a set one <<c>>
NoHand == [ranking |-> 0, cards |-> <<>>, description |-> "", config |-> <<>>]

Panicked(msg) == [panic |-> msg, hand |-> NoHand]

IndexOutOfRange == "index out of range"
Unreachable == "unreachable"

\* for _, r := range rankings { if r.vFunc(cards, c) {...} }: the index of the
\* first ranking whose predicate holds or panics, 0 when the loop falls through
firstRanking(rankings, formed, c) ==
    LET RECURSIVE go(_)
        go(i) ==
            IF i > Len(rankings) THEN 0
            ELSE IF vPanics(rankings[i], formed, c) \/ vFunc(rankings[i], formed, c)
                 THEN i
                 ELSE go(i + 1)
    IN go(1)

classified(formed, c, rankings, i) ==
    IF i = 0 THEN Panicked(Unreachable)
    ELSE IF vPanics(rankings[i], formed, c) \/ dPanics(rankings[i], formed)
    THEN Panicked(IndexOutOfRange)
    ELSE [panic |-> "",
          hand |-> [ranking |-> rankings[i].r, cards |-> formed,
                    description |-> dFunc(rankings[i], formed), config |-> <<>>]]

classify(formed, c) ==
    Bind(firstRanking(getRankingsByType(c.gameType), formed, c),
         LAMBDA i : classified(formed, c, getRankingsByType(c.gameType), i))

handForFiveCards(cs, c) == Bind(formCards(cs, c), LAMBDA formed : classify(formed, c))

\* util.Combinations(n, r): the r-element index combinations of 0..n-1 in
\* lexicographic order (a single empty combination for r = 0)
Combinations(n, r) ==
    LET RECURSIVE from(_, _)
        from(lo, k) ==
            IF k = 0 THEN << <<>> >>
            ELSE IF lo > n - k THEN <<>>
            ELSE Bind(from(lo + 1, k - 1),
                      LAMBDA with : [j \in 1..Len(with) |-> <<lo>> \o with[j]])
                 \o from(lo + 1, k)
    IN from(0, r)

\* a cardCombos that stops after the first combination
cardCombosFirstOnly(cs) ==
    IF Len(cs) = 0 THEN << <<>> >>
    ELSE << SubSeq(cs, 1, IF Len(cs) < 5 THEN Len(cs) ELSE 5) >>

cardCombos(cs) ==
    Bind(Combinations(Len(cs), IF Len(cs) < 5 THEN Len(cs) ELSE 5),
         LAMBDA indexCombos :
            [k \in 1..Len(indexCombos) |->
                [j \in 1..Len(indexCombos[k]) |-> cs[indexCombos[k][j] + 1]]])

-----------------------------------------------------------------------------
(* CompareTo and Sort.                                                       *)

\* the cards the loop for i := 0; i < 5; i++ can index in both hands
comparable(h, o) ==
    LET m == IF Len(h.cards) < Len(o.cards) THEN Len(h.cards) ELSE Len(o.cards)
    IN IF m < 5 THEN m ELSE 5

\* the first position where the ranks differ (0: none among the comparable)
firstDiff(h, o) ==
    LET differ(i) == h.cards[i].rank # o.cards[i].rank
        m == comparable(h, o)
    IN IF \A i \in 1..m : ~differ(i) THEN 0
       ELSE CHOOSE i \in 1..m : differ(i) /\ \A j \in 1..(i - 1) : ~differ(j)

\* hCards[i] or oCards[i] past the end before any rank differed
CompareToPanics(h, o) ==
    h.ranking = o.ranking /\ firstDiff(h, o) = 0 /\ comparable(h, o) < 5

CompareTo(h, o) ==
    IF h.ranking # o.ranking THEN h.ranking - o.ranking
    ELSE Bind(firstDiff(h, o),
              LAMBDA i : IF i = 0 THEN 0 ELSE h.cards[i].rank - o.cards[i].rank)

byHighHandLess(a, b) == CompareTo(a, b) < 0

Sort(s, o, hs) ==
    LET high == (o = ASC /\ s = SortingHigh) \/ (o = DESC /\ s = SortingLow)
        rev(a, b) == byHighHandLess(b, a)
        revPanics(a, b) == CompareToPanics(b, a)
    IN IF high THEN insertionSort(hs, byHighHandLess, CompareToPanics)
       ELSE insertionSort(hs, rev, revPanics)

-----------------------------------------------------------------------------
(* New.  The outcome also carries the functions the call entered.            *)

\* hands = Sort(c.sorting, DESC, hands...); hands[0].config = c; return hands[0]
pickFirst(hs, c, entered) ==
    Bind(Sort(c.sorting, DESC, hs), LAMBDA srt :
        IF srt.panic \/ Len(srt.out) = 0
        THEN [panic |-> IndexOutOfRange, hand |-> NoHand, steps |-> entered \cup {"Sort"}]
        ELSE [panic |-> "", hand |-> [srt.out[1] EXCEPT !.config = <<c>>],
              steps |-> entered \cup {"Sort"}])

\* the loop over combos: the first panic ends the call
collect(made, c, entered) ==
    IF \E k \in 1..Len(made) : made[k].panic # ""
    THEN [panic |-> made[CHOOSE k \in 1..Len(made) :
                            /\ made[k].panic # ""
                            /\ \A j \in 1..(k - 1) : made[j].panic = ""].panic,
          hand |-> NoHand, steps |-> entered]
    ELSE pickFirst([k \in 1..Len(made) |-> made[k].hand], c, entered)

\* from combos := cardCombos(cards) on, for the Config c the options left
newWithConfig(cs, c) ==
    Bind(cardCombos(cs), LAMBDA combos :
        Bind([k \in 1..Len(combos) |-> handForFiveCards(combos[k], c)], LAMBDA made :
            collect(made, c,
                    {"cardCombos"} \cup
                    (IF Len(combos) > 0 THEN {"handForFiveCards", "formCards"} ELSE {}))))

New(cs, options) == Bind(applyOptions(ZeroConfig, options), LAMBDA c : newWithConfig(cs, c))

-----------------------------------------------------------------------------
(* The JSON records.  A card is written as its rank character and its suit.  *)

rankChars == <<"2", "3", "4", "5", "6", "7", "8", "9", "T", "J", "Q", "K", "A">>

\* Card.MarshalJSON: the token of a card
cardMarshalJSON(card) == rankChars[card.rank + 1] \o card.suit

\* Card.UnmarshalJSON: the card a token names
cardUnmarshalJSON(token) ==
    CHOOSE card \in {Card(allRanks[k], su) : k \in 1..Len(allRanks), su \in Suits} :
        cardMarshalJSON(card) = token

\* Config.MarshalJSON: configJSON has the four fields, not gameType
ConfigMarshalJSON(c) ==
    [sorting |-> c.sorting, ignoreStraights |-> c.ignoreStraights,
     ignoreFlushes |-> c.ignoreFlushes, aceIsLow |-> c.aceIsLow]

\* Config.UnmarshalJSON into a zero Config
ConfigUnmarshalJSON(m) ==
    [ZeroConfig EXCEPT !.sorting = m.sorting, !.ignoreStraights = m.ignoreStraights,
                       !.ignoreFlushes = m.ignoreFlushes, !.aceIsLow = m.aceIsLow]

\* Hand.MarshalJSON of a hand New returned (h.config is set)
HandMarshalJSON(h) ==
    [ranking |-> h.ranking,
     cards |-> [i \in 1..Len(h.cards) |-> cardMarshalJSON(h.cards[i])],
     description |-> h.description,
     config |-> ConfigMarshalJSON(h.config[1])]

\* the option f of Hand.UnmarshalJSON applied by New to its zero Config
copyDecoded(c, mConfig) ==
    [c EXCEPT !.sorting = mConfig.sorting, !.ignoreStraights = mConfig.ignoreStraights,
              !.ignoreFlushes = mConfig.ignoreFlushes, !.aceIsLow = mConfig.aceIsLow]

\* Hand.UnmarshalJSON: cp := New(m.Cards, f), its four fields copied into h
HandUnmarshalJSON(b) ==
    Bind(copyDecoded(ZeroConfig, ConfigUnmarshalJSON(b.config)), LAMBDA c :
        newWithConfig([i \in 1..Len(b.cards) |-> cardUnmarshalJSON(b.cards[i])], c))

-----------------------------------------------------------------------------
(* Bounds and the inputs the callers deal.                                   *)

\* l := 5 of cardCombos: the size of a full hand
HandSize == 5

\* the most cards a caller hands to New
MaxCards == 7

\* the most hands a caller hands to Sort
MaxHands == 2

suited(ranks, suit) == [i \in 1..Len(ranks) |-> Card(ranks[i], suit)]

\* the n-card draws of a deck, in deck order
draws(deck, n) ==
    LET ic == Combinations(Len(deck), n)
    IN {[j \in 1..n |-> deck[ic[k][j] + 1]] : k \in 1..Len(ic)}

\* every order of the cards of cs
orders(cs) ==
    LET n == Len(cs)
        perms == {p \in [1..n -> 1..n] : \A i, j \in 1..n : i # j => p[i] # p[j]}
    IN {[i \in 1..n |-> cs[p[i]]] : p \in perms}

WheelDeck ==
    suited(<<Ace, Two, Three, Four, Five, Six>>, "s")
    \o <<Card(Ace, "h"), Card(Ace, "d"), Card(Ace, "c"),
         Card(Two, "h"), Card(Two, "d"), Card(Three, "h")>>

BroadwayDeck ==
    suited(<<Nine, Ten, Jack, Queen, King, Ace>>, "s")
    \o <<Card(Ace, "h"), Card(Ace, "d"), Card(Ace, "c"),
         Card(King, "h"), Card(King, "d"), Card(Queen, "h")>>

SixPlusDeck ==
    suited(<<Six, Seven, Eight, Nine, Ten, Ace>>, "s")
    \o <<Card(Ace, "h"), Card(Ace, "d"), Card(Ace, "c"),
         Card(Nine, "h"), Card(Nine, "d"), Card(Eight, "h")>>

\* smaller decks for draws of more than five cards
WheelStub ==
    suited(<<Ace, Two, Three, Four, Five, Six>>, "s")
    \o <<Card(Ace, "h"), Card(Two, "h"), Card(Ace, "d")>>

SixPlusStub ==
    suited(<<Six, Seven, Eight, Nine, King, Ace>>, "s")
    \o <<Card(Ace, "h"), Card(King, "h"), Card(Ace, "d")>>

ShuffledHands ==
    {suited(<<Ace, Two, Three, Four, Five>>, "s"),
     <<Card(Ace, "s"), Card(Two, "h"), Card(Three, "d"), Card(Four, "c"), Card(Five, "s")>>,
     suited(<<Ace, Nine, Eight, Seven, Six>>, "h"),
     <<Card(Ace, "s"), Card(Nine, "c"), Card(Eight, "d"), Card(Seven, "h"), Card(Six, "s")>>}

EvalInputs ==
    UNION {draws(d, n) : d \in {WheelDeck, BroadwayDeck, SixPlusDeck}, n \in 0..HandSize}
    \cup UNION {draws(d, n) : d \in {WheelStub, SixPlusStub}, n \in (HandSize + 1)..MaxCards}
    \cup UNION {orders(h) : h \in ShuffledHands}

OptionSets ==
    {<<>>, <<"Low">>, <<"AceToFiveLow">>, <<"ShortDeck">>, <<"Low", "AceToFiveLow">>,
     <<"Low", "ShortDeck">>, <<"AceToFiveLow", "ShortDeck">>,
     <<"Low", "AceToFiveLow", "ShortDeck">>}

\* the configurations a decoded record can carry (configJSON has no gameType)
DecodedConfigs ==
    {[ZeroConfig EXCEPT !.sorting = s, !.ignoreStraights = is, !.ignoreFlushes = if,
                        !.aceIsLow = al] :
        s \in {SortingUnset, SortingLow}, is \in BOOLEAN, if \in BOOLEAN, al \in BOOLEAN}

-----------------------------------------------------------------------------
(* The state machine: a caller holding cards calls New or decodes a record.  *)

Blank ==
    /\ pc = "start"
    /\ config = ZeroConfig
    /\ hand = NoHand
    /\ panic = ""
    /\ steps = {}
    /\ cmp = <<>>
    /\ hands = <<>>
    /\ sorted = <<>>
    /\ json = <<>>
    /\ decoded = <<>>

InitEval == cards \in EvalInputs /\ Blank

\* hand := New(cards, options...)
CallNew ==
    /\ pc = "start"
    /\ \E options \in OptionSets :
         \E r \in {New(cards, options)} :
            /\ config' = applyOptions(ZeroConfig, options)
            /\ hand' = r.hand
            /\ panic' = r.panic
            /\ steps' = r.steps
    /\ pc' = "built"
    /\ UNCHANGED <<cards, cmp, hands, sorted, json, decoded>>

\* h.UnmarshalJSON(b) for a record holding the caller's cards and any config:
\* New(m.Cards, f) with f copying the four decoded fields
CallUnmarshalJSON ==
    /\ pc = "start"
    /\ \E c \in DecodedConfigs :
         \E r \in {newWithConfig(cards, c)} :
            /\ config' = c
            /\ hand' = r.hand
            /\ panic' = r.panic
            /\ steps' = r.steps
    /\ pc' = "decoded"
    /\ UNCHANGED <<cards, cmp, hands, sorted, json, decoded>>

NextEval == CallNew \/ CallUnmarshalJSON

SpecEval == InitEval /\ [][NextEval]_vars

-----------------------------------------------------------------------------
(* A caller comparing the hand it built with another hand of the same options. *)

\* nine cards of the short deck's ranks: flushes, a full house, pairs of aces
\* and of kings
CompareDeck ==
    suited(<<Ace, King, Queen, Nine, Seven, Six>>, "s")
    \o <<Card(Ace, "h"), Card(Ace, "d"), Card(King, "h")>>

CompareInputs == draws(CompareDeck, HandSize) \cup draws(CompareDeck, 1)

InitCompare == cards \in CompareInputs /\ Blank

\* hand.CompareTo(o), o built by New from other cards with the same options
CallCompareTo ==
    /\ pc = "built"
    /\ panic = ""
    /\ \E ocards \in CompareInputs :
         \E r \in {newWithConfig(ocards, config)} :
            /\ r.panic = ""
            /\ cmp' = <<[o |-> r.hand,
                         panic |-> CompareToPanics(hand, r.hand),
                         value |-> IF CompareToPanics(hand, r.hand) THEN 0
                                   ELSE CompareTo(hand, r.hand)]>>
    /\ pc' = "compared"
    /\ UNCHANGED <<cards, config, hand, panic, steps, hands, sorted, json, decoded>>

NextCompare == CallNew \/ CallCompareTo

SpecCompare == InitCompare /\ [][NextCompare]_vars

-----------------------------------------------------------------------------
(* A caller collecting the hands it built and sorting them.                  *)

SortDeck ==
    suited(<<Ace, King, Queen, Jack, Nine>>, "s") \o <<Card(King, "h")>>

SortInputs == draws(SortDeck, HandSize) \cup draws(SortDeck, 1)

InitSort == cards \in SortInputs /\ Blank

\* hands = append(hands, hand), then either more cards are dealt or the caller
\* is ready to sort
Keep ==
    /\ pc = "built"
    /\ panic = ""
    /\ Len(hands) < MaxHands
    /\ hands' = Append(hands, hand)
    /\ \/ /\ Len(hands) + 1 < MaxHands
          /\ cards' \in SortInputs
          /\ pc' = "start"
       \/ /\ cards' = <<>>
          /\ pc' = "ready"
    /\ config' = ZeroConfig
    /\ hand' = NoHand
    /\ steps' = {}
    /\ UNCHANGED <<panic, cmp, sorted, json, decoded>>

\* sorted := Sort(s, o, hands...): Sort works on a copy, hands is left as it was
CallSort ==
    /\ pc = "ready"
    /\ \E s \in {SortingHigh, SortingLow}, o \in {ASC, DESC} :
         \E r \in {Sort(s, o, hands)} :
            sorted' = <<[s |-> s, o |-> o, panic |-> r.panic,
                         out |-> IF r.panic THEN <<>> ELSE r.out]>>
    /\ pc' = "sorted"
    /\ UNCHANGED <<cards, config, hand, panic, steps, cmp, hands, json, decoded>>

NextSort == CallNew \/ Keep \/ CallSort

SpecSort == InitSort /\ [][NextSort]_vars

\* hands[0].CompareTo(hands[1]) on two hands the caller collected
CallCompareKept ==
    /\ pc = "ready"
    /\ Len(hands) = 2
    /\ cmp' = <<[o |-> hands[2],
                 panic |-> CompareToPanics(hands[1], hands[2]),
                 value |-> IF CompareToPanics(hands[1], hands[2]) THEN 0
                           ELSE CompareTo(hands[1], hands[2])]>>
    /\ pc' = "compared"
    /\ UNCHANGED <<cards, config, hand, panic, steps, hands, sorted, json, decoded>>

NextTotal == CallNew \/ Keep \/ CallSort \/ CallCompareKept

SpecTotal == InitSort /\ [][NextTotal]_vars

-----------------------------------------------------------------------------
(* A caller writing the hand it built as JSON and reading it back.           *)

\* b, _ := json.Marshal(hand)
CallMarshalJSON ==
    /\ pc = "built"
    /\ panic = ""
    /\ json' = <<HandMarshalJSON(hand)>>
    /\ pc' = "encoded"
    /\ UNCHANGED <<cards, config, hand, panic, steps, cmp, hands, sorted, decoded>>

\* json.Unmarshal(b, h2)
CallUnmarshalMarshalled ==
    /\ pc = "encoded"
    /\ \E r \in {HandUnmarshalJSON(json[1])} :
         decoded' = <<[hand |-> r.hand, panic |-> r.panic]>>
    /\ pc' = "reread"
    /\ UNCHANGED <<cards, config, hand, panic, steps, cmp, hands, sorted, json>>

NextJSON == CallNew \/ CallMarshalJSON \/ CallUnmarshalMarshalled

SpecJSON == InitEval /\ [][NextJSON]_vars

-----------------------------------------------------------------------------
(* Properties of one call.                                                   *)

rankSet(cs) == {cs[i].rank : i \in 1..Len(cs)}
oneSuit(cs) == \A i \in 1..Len(cs) : cs[i].suit = cs[1].suit
WheelRanks == {Ace, Five, Four, Three, Two}
LowSDRanks == {Ace, Nine, Eight, Seven, Six}
BroadwayRanks == {Ace, King, Queen, Jack, Ten}
Called == pc \in {"built", "decoded"}

\* the five-card subsets of cs, each in the order of cs
fiveSubsets(cs) ==
    {SelectSeq([i \in 1..Len(cs) |-> IF i \in T THEN <<cs[i]>> ELSE <<>>],
               LAMBDA x : x # <<>>) :
        T \in {U \in SUBSET (1..Len(cs)) : Cardinality(U) = 5}}

flat(ss) == [i \in 1..Len(ss) |-> ss[i][1]]

\* C1: for every five distinct cards and every Configuration exactly one of the
\* ten tier predicates of the selected table holds on the canonical arrangement,
\* so the classification never reaches panic("unreachable").
C1_ExactlyOneTier ==
    (Called /\ Len(cards) = 5) =>
        LET formed == formCards(cards, config)
            rankings == getRankingsByType(config.gameType)
        IN /\ Cardinality({i \in 1..Len(rankings) : vFunc(rankings[i], formed, config)}) = 1
           /\ panic # Unreachable

\* C2: from n cards, 5 <= n <= MaxCards, New returns the Hand of one of the
\* five-card subsets, and no subset's Hand beats it under the scoring of the
\* options: CompareTo(result, other) >= 0 when high, <= 0 when low.
C2_BestOfAllSubsets ==
    (pc = "built" /\ Len(cards) >= 5) =>
        LET all == {handForFiveCards(flat(s), config) : s \in fiveSubsets(cards)}
        IN /\ panic = ""
           /\ \A r \in all : r.panic = ""
           /\ \E r \in all : hand = [r.hand EXCEPT !.config = <<config>>]
           /\ \A r \in all :
                IF config.sorting = SortingLow
                THEN CompareTo(hand, r.hand) <= 0
                ELSE CompareTo(hand, r.hand) >= 0

\* a seven-card draw in low scoring whose best hand is not its first five cards
C2_Witness ==
    /\ pc = "built" /\ Len(cards) = 7 /\ config.sorting = SortingLow /\ panic = ""
    /\ CompareTo(hand, handForFiveCards(SubSeq(cards, 1, 5), config).hand) < 0

\* C4: with ShortDeck and otherwise default options, five cards of ranks
\* Ace, Nine, Eight, Seven, Six in any order are arranged Nine..Six, Ace and are
\* a straight "straight nine high" (SDStraight), or a straight flush
\* (SDStraightFlush) when of one suit.
C4_ShortDeckLowStraight ==
    (pc = "built" /\ config = ShortDeck(ZeroConfig)
        /\ Len(cards) = 5 /\ rankSet(cards) = LowSDRanks) =>
        /\ panic = ""
        /\ ranksOf(hand.cards) = <<Nine, Eight, Seven, Six, Ace>>
        /\ IF oneSuit(cards)
           THEN hand.ranking = SDStraightFlush
           ELSE hand.ranking = SDStraight /\ hand.description = "straight nine high"

\* C5: with the default options, five cards of ranks Ace, Five, Four, Three, Two
\* in any order are arranged Five..Two, Ace and are "straight five high" (tier 5),
\* or "straight flush five high" (tier 9) when of one suit; and a hand is a royal
\* flush (tier 10) exactly when it is Ace, King, Queen, Jack, Ten of one suit.
C5_WheelAndRoyal ==
    (pc = "built" /\ config = ZeroConfig /\ Len(cards) = 5) =>
        /\ panic = ""
        /\ rankSet(cards) = WheelRanks =>
            /\ ranksOf(hand.cards) = <<Five, Four, Three, Two, Ace>>
            /\ IF oneSuit(cards)
               THEN hand.ranking = 9 /\ hand.description = "straight flush five high"
               ELSE hand.ranking = 5 /\ hand.description = "straight five high"
        /\ hand.ranking = 10 <=> (rankSet(cards) = BroadwayRanks /\ oneSuit(cards))

\* a wheel of mixed suits handed over with its ace not in front
C5_Witness ==
    /\ pc = "built" /\ config = ZeroConfig /\ Len(cards) = 5
    /\ rankSet(cards) = WheelRanks /\ ~oneSuit(cards) /\ cards[1].rank # Ace
    /\ hand.ranking = 5

\* the ordinals C7 states, by the name of the shape's description generator
ShapeNames ==
    <<"HighCard", "Pair", "TwoPair", "ThreeOfAKind", "Straight", "Flush",
      "FullHouse", "FourOfAKind", "StraightFlush", "RoyalFlush">>
StandardOrdinals == <<1, 2, 3, 4, 5, 6, 7, 8, 9, 10>>
ShortDeckOrdinals == <<1, 2, 3, 4, 5, 7, 6, 8, 9, 10>>

\* C7: the tables give high card 1, pair 2, two pair 3, trips 4, straight 5,
\* quads 8, straight flush 9, royal flush 10, with flush 6 and full house 7 in the
\* standard table and full house 6 and flush 7 in the short-deck table; a Hand
\* New returns carries the ordinal its gameType's table gives its shape.
C7_TierOrdinals ==
    /\ [k \in 1..10 |-> getRankingsByType(GameTypeStandard)[k].r] = StandardOrdinals
    /\ [k \in 1..10 |-> getRankingsByType(GameTypeShortDeck)[k].r] = ShortDeckOrdinals
    /\ \A k \in 1..10 :
         /\ getRankingsByType(GameTypeStandard)[k].name = "std" \o ShapeNames[k]
         /\ getRankingsByType(GameTypeShortDeck)[k].name = "sd" \o ShapeNames[k]
    /\ (pc = "built" /\ panic = "") =>
         \E k \in 1..10 :
            /\ dLastIndex(NewRanking(0, "std" \o ShapeNames[k])) < Len(hand.cards)
            /\ hand.description = dFunc(NewRanking(0, "std" \o ShapeNames[k]), hand.cards)
            /\ hand.ranking = IF config.gameType = GameTypeShortDeck
                              THEN ShortDeckOrdinals[k] ELSE StandardOrdinals[k]

\* a short-deck flush, which carries 7
C7_Witness ==
    /\ pc = "built" /\ panic = "" /\ config.gameType = GameTypeShortDeck
    /\ hand.description = "flush ace high" /\ hand.ranking = 7

\* the tier the pair structure of cs alone gives
pairTier(cs) ==
    LET counts == {Len(cardsForRank(cs, r)) : r \in rankSet(cs)}
        pairs == Cardinality({r \in rankSet(cs) : Len(cardsForRank(cs, r)) = 2})
    IN CASE 4 \in counts -> 8
         [] 3 \in counts -> 4
         [] pairs = 2 -> 3
         [] pairs = 1 -> 2
         [] OTHER -> 1

\* C9: from k cards, 1 <= k <= 4, and any options New completes and returns a
\* Hand of exactly those cards whose tier is the one of its pair structure.
C9_FewerThanFive ==
    (pc = "built" /\ Len(cards) \in 1..4) =>
        /\ panic = ""
        /\ Len(hand.cards) = Len(cards)
        /\ {hand.cards[i] : i \in 1..Len(hand.cards)} = {cards[i] : i \in 1..Len(cards)}
        /\ hand.ranking = pairTier(cards)

\* C10: New on an empty card sequence is rejected before any combinatorial work:
\* cardCombos, arrangement and classification are not entered, no Hand returned.
C10_EmptyRejectedEarly ==
    (pc = "built" /\ cards = <<>>) => (steps = {} /\ hand = NoHand)

-----------------------------------------------------------------------------
(* Properties of CompareTo and Sort.                                         *)

sign(n) == IF n > 0 THEN 1 ELSE IF n < 0 THEN -1 ELSE 0

\* the rank ordinal under the ace ordering the hands were built with
activeIndex(r) == IF config.aceIsLow THEN aceLowIndex(r) ELSE aceHighIndex(r)

\* C3: for two five-card Hands of equal tier CompareTo has the sign of the
\* difference of the active rank ordinals (ace-low when built with aceIsLow) at
\* the first position where the ranks differ, and is zero when none differs.
C3_ActiveAceOrdering ==
    (pc = "compared" /\ Len(hand.cards) = 5 /\ Len(cmp[1].o.cards) = 5
        /\ hand.ranking = cmp[1].o.ranking) =>
        LET o == cmp[1].o
            d == {i \in 1..5 : hand.cards[i].rank # o.cards[i].rank}
        IN /\ ~cmp[1].panic
           /\ IF d = {} THEN cmp[1].value = 0
              ELSE LET i == CHOOSE i \in d : \A j \in d : i <= j
                   IN sign(cmp[1].value) =
                        sign(activeIndex(hand.cards[i].rank) - activeIndex(o.cards[i].rank))

isFullHouse(h) ==
    /\ Len(h.cards) = 5
    /\ Len(cardsForRank(h.cards, h.cards[1].rank)) = 3
    /\ Len(cardsForRank(h.cards, h.cards[4].rank)) = 2

isFlush(h) ==
    /\ Len(h.cards) = 5
    /\ oneSuit(h.cards)
    /\ h.description = "flush " \o singularName(h.cards[1].rank) \o " high"

ShortDeckFullHouseAgainstFlush ==
    /\ pc = "compared"
    /\ config.gameType = GameTypeShortDeck
    /\ isFullHouse(hand)
    /\ isFlush(cmp[1].o)

\* C6 as stated: under ShortDeck a full house f and a flush g compare
\* CompareTo(f, g) > 0.
C6_FullHouseBeatsFlush == ShortDeckFullHouseAgainstFlush => cmp[1].value > 0

\* C6 as the code has it: under ShortDeck a full house f and a flush g compare
\* CompareTo(f, g) < 0, the flush carrying the greater short-deck ordinal.
C6_FlushBeatsFullHouse ==
    ShortDeckFullHouseAgainstFlush =>
        /\ ~cmp[1].panic
        /\ cmp[1].value < 0
        /\ hand.ranking < cmp[1].o.ranking

C6_Witness == ShortDeckFullHouseAgainstFlush /\ cmp[1].value < 0

isPermutation(a, b) ==
    /\ Len(a) = Len(b)
    /\ \E p \in [1..Len(a) -> 1..Len(a)] :
         /\ \A i, j \in 1..Len(a) : i # j => p[i] # p[j]
         /\ \A i \in 1..Len(a) : a[i] = b[p[i]]

\* C8: Sort(s, o, hands...) returns a permutation of hands that is
\* non-decreasing by CompareTo when (o = ASC and s = SortingHigh) or (o = DESC
\* and s = SortingLow) and non-increasing otherwise; of two hands, DESC puts
\* first the greater under SortingHigh and the lesser under SortingLow.
C8_SortOrdersHands ==
    pc = "sorted" =>
        LET r == sorted[1]
            up == (r.o = ASC /\ r.s = SortingHigh) \/ (r.o = DESC /\ r.s = SortingLow)
        IN /\ ~r.panic
           /\ isPermutation(r.out, hands)
           /\ \A i, j \in 1..Len(r.out) :
                i < j => IF up THEN CompareTo(r.out[i], r.out[j]) <= 0
                         ELSE CompareTo(r.out[i], r.out[j]) >= 0
           /\ (Len(hands) = 2 /\ r.o = DESC) =>
                \A k \in 1..2 :
                    IF r.s = SortingHigh THEN CompareTo(r.out[1], hands[k]) >= 0
                    ELSE CompareTo(r.out[1], hands[k]) <= 0

-----------------------------------------------------------------------------
(* Properties of the JSON round trip.                                        *)

\* C11: a Hand New returned, encoded to its record and decoded by
\* UnmarshalJSON, comes back with the same tier, the same arrangement of cards
\* and the same description, whatever the options.
C11_RoundTrip ==
    pc = "reread" =>
        /\ decoded[1].panic = ""
        /\ decoded[1].hand.ranking = hand.ranking
        /\ decoded[1].hand.cards = hand.cards
        /\ decoded[1].hand.description = hand.description

-----------------------------------------------------------------------------
(* Totality of comparison and sorting.                                       *)

\* C12: for two Hands New returned from at least one card each, of five cards
\* or fewer, CompareTo(a, b) and Sort(s, o, a, b) complete and return a value:
\* neither ends in an out-of-range read of a card position.
C12_CompareAndSortTotal ==
    /\ (pc = "compared" /\ \A i \in 1..2 : Len(hands[i].cards) >= 1) => ~cmp[1].panic
    /\ (pc = "sorted" /\ Len(hands) = 2 /\ \A i \in 1..2 : Len(hands[i].cards) >= 1) =>
            (~sorted[1].panic /\ Len(sorted[1].out) = 2)

====
